---- MODULE Spec2Model ----
(***************************************************************************)
(* Model of the polycube packing solver of src/main.rs: orientation        *)
(* generation (Orintaion), placement bitmasks (Bitset), the board          *)
(* (Placement) and the backtracking search (Solver).                       *)
(*                                                                         *)
(* A Bitset (u64) is represented by the set of the indices of its set      *)
(* bits, a subset of 0..63: and / or / xor are intersection, union and     *)
(* symmetric difference, and bits == 0 is emptiness.                       *)
(***************************************************************************)
EXTENDS Integers, Sequences, FiniteSets, TLC

(* ---------------- bounds of the model ---------------- *)

\* longest block list given to Piece::new
MaxBlocks == 3
\* most pieces in a puzzle handed to the solver
MaxPieces == 3
\* longest corner list handed to corner_solve
MaxCorners == 2
\* highest bit index used by the free-standing place / pop board
MaxBit == 2
\* most entries on the free-standing board's stack
MaxDepth == 2
\* number of unit pieces (and of cells) of the unit-cube puzzle
NUnit == 3

(* ---------------- program constants ---------------- *)

SIZE == 4

(* ---------------- Bitset ---------------- *)

BitsetEmpty == {}

BitsetAnd(a, b) == a \cap b

BitsetOr(a, b) == a \cup b

BitsetXor(a, b) == (a \ b) \cup (b \ a)

IsZero(bits) == bits = {}

(* ---------------- Coord / Orintaion ---------------- *)

Coord(x, y, z) == [x |-> x, y |-> y, z |-> z]

\* Iterator::collect: the mapped iterator is materialised into a Vec
collect(f) == SubSeq(f, 1, Len(f))

\* Iterator::min over the mapped coordinates
IterMin(values) == CHOOSE m \in values : \A n \in values : m <= n

\* min().unwrap() on an empty iterator panics
normalise_panics(blocks) == Len(blocks) = 0

normalise(blocks) ==
    LET min_x == IterMin({blocks[i].x : i \in 1..Len(blocks)})
        min_y == IterMin({blocks[i].y : i \in 1..Len(blocks)})
        min_z == IterMin({blocks[i].z : i \in 1..Len(blocks)})
    IN collect([i \in 1..Len(blocks) |->
           Coord(blocks[i].x - min_x, blocks[i].y - min_y, blocks[i].z - min_z)])

\* mutant: the Next rotation turns about the same axis as Clk
rotate_block_one_axis(b, dir) ==
    CASE dir = "Next" -> Coord(b.z, b.y, 0 - b.x)
      [] dir = "Clk"  -> Coord(b.z, b.y, 0 - b.x)
      [] dir = "CClk" -> Coord(0 - b.z, b.y, b.x)

rotate_block(b, dir) ==
    CASE dir = "Next" -> Coord(b.x, b.z, 0 - b.y)
      [] dir = "Clk"  -> Coord(b.z, b.y, 0 - b.x)
      [] dir = "CClk" -> Coord(0 - b.z, b.y, b.x)

rotate(blocks, dir) ==
    collect([i \in 1..Len(blocks) |-> rotate_block(blocks[i], dir)])

\* count of the blocks of a that have an equal block in b, against a's length
similar(a, b) ==
    Cardinality({i \in 1..Len(a) : \E j \in 1..Len(b) : a[i] = b[j]}) = Len(a)

push_if_new(orintations, ori) ==
    IF \A i \in 1..Len(orintations) : ~similar(orintations[i], ori)
    THEN Append(orintations, ori)
    ELSE orintations

\* one pass of the inner loop body: spin, normalise, keep if new
spin(st) ==
    LET o == normalise(rotate(st.ori, IF st.clk THEN "Clk" ELSE "CClk"))
    IN [ori |-> o, orintations |-> push_if_new(st.orintations, o), clk |-> st.clk]

\* one pass of the outer loop body: three spins, one Next, flip clk
dir_step(st) ==
    LET s3 == spin(spin(spin(st)))
        o  == normalise(rotate(s3.ori, "Next"))
    IN [ori |-> o, orintations |-> push_if_new(s3.orintations, o), clk |-> ~s3.clk]

RECURSIVE dir_loop(_, _)
dir_loop(n, st) ==
    IF n = 0 THEN st
    ELSE CHOOSE r \in {dir_loop(n - 1, s) : s \in {dir_step(st)}} : TRUE

all_orintations(blocks) ==
    LET ori == normalise(blocks)
    IN dir_loop(6, [ori |-> ori, orintations |-> <<ori>>, clk |-> TRUE]).orintations

(* ---------------- placements ---------------- *)

in_bounds(c) ==
    /\ c.x >= 0 /\ c.x < SIZE
    /\ c.y >= 0 /\ c.y < SIZE
    /\ c.z >= 0 /\ c.z < SIZE

translate(blocks, x, y, z) ==
    collect([i \in 1..Len(blocks) |->
        Coord(blocks[i].x + x, blocks[i].y + y, blocks[i].z + z)])

bit_index(c) == 16 * c.z + 4 * c.y + c.x

\* the body of the innermost loop: the bitmask of the translation, if valid
placement_at(blocks, x, y, z) ==
    LET moved == translate(blocks, x, y, z)
    IN IF \A i \in 1..Len(moved) : in_bounds(moved[i])
       THEN <<{bit_index(moved[i]) : i \in 1..Len(moved)}>>
       ELSE <<>>

RECURSIVE loop_z(_, _, _, _)
loop_z(blocks, x, y, z) ==
    IF z >= SIZE THEN <<>>
    ELSE placement_at(blocks, x, y, z) \o loop_z(blocks, x, y, z + 1)

RECURSIVE loop_y(_, _, _)
loop_y(blocks, x, y) ==
    IF y >= SIZE THEN <<>>
    ELSE loop_z(blocks, x, y, 0) \o loop_y(blocks, x, y + 1)

RECURSIVE loop_x(_, _)
loop_x(blocks, x) ==
    IF x >= SIZE THEN <<>>
    ELSE loop_y(blocks, x, 0) \o loop_x(blocks, x + 1)

placements(blocks) == loop_x(blocks, 0)

RECURSIVE flat_map_placements(_, _)
flat_map_placements(oris, i) ==
    IF i > Len(oris) THEN <<>>
    ELSE placements(oris[i]) \o flat_map_placements(oris, i + 1)

\* Piece::new; the name and the colour play no part in the search
piece_new(piece_id, blocks) ==
    CHOOSE p \in {[piece_id |-> piece_id, size |-> Len(blocks),
                   orintations |-> oris,
                   placements |-> flat_map_placements(oris, 1)] :
                      oris \in {all_orintations(blocks)}} : TRUE

(* ---------------- state ---------------- *)

VARIABLES
    pc,             \* position of the run: the phase of the program being modelled
    input,          \* block list handed to Piece::new
    piece,          \* the Piece built from input
    prev_oris,      \* the orientation set of the construction before a re-run
    pieces,         \* Puzzle.pieces
    occupied,       \* Placement.occupied
    placed,         \* Placement.placed
    stack,          \* call stack of solve / corner_solve
    num_solutions,  \* Solver.num_solutions
    solutions,      \* the boards shown by solve, in order
    root,           \* the arguments and the board of the outermost call
    saved           \* the board before the last place of the free-standing board

vars == <<pc, input, piece, prev_oris, pieces, occupied, placed, stack,
          num_solutions, solutions, root, saved>>

NoPiece == [piece_id |-> 0, size |-> 0, orintations |-> <<>>, placements |-> <<>>]

NoOris == <<>>

NoRoot == [fn |-> "none"]

NoSaved == [occupied |-> {}, placed |-> <<>>, bits |-> {}, valid |-> TRUE]

(* ---------------- Piece::new on its own ---------------- *)

\* coordinates of the input blocks; x = SIZE makes shapes too long for the grid
CoordSpace == {Coord(x, y, z) : x \in {0, 1, SIZE}, y \in 0..1, z \in 0..1}

coord_key(c) == c.x + 8 * c.y + 16 * c.z

\* the empty block list, and the duplicate-free block lists that start at the
\* origin, each block set listed once
Inputs ==
    {s \in UNION {[1..n -> CoordSpace] : n \in 0..MaxBlocks} :
        /\ Len(s) > 0 => s[1] = Coord(0, 0, 0)
        /\ \A i \in 1..Len(s) : \A j \in 1..Len(s) :
               i < j => coord_key(s[i]) < coord_key(s[j])}

BlockSet(blocks) == {blocks[i] : i \in 1..Len(blocks)}

OriSets(oris) == {BlockSet(oris[i]) : i \in 1..Len(oris)}

InitPiece ==
    /\ pc = "input"
    /\ input \in Inputs
    /\ piece = NoPiece
    /\ prev_oris = NoOris
    /\ pieces = <<>>
    /\ occupied = BitsetEmpty
    /\ placed = <<>>
    /\ stack = <<>>
    /\ num_solutions = 0
    /\ solutions = <<>>
    /\ root = NoRoot
    /\ saved = NoSaved

\* Piece::new: all_orintations normalises first and panics on no blocks
PieceNew ==
    /\ pc = "input"
    /\ IF normalise_panics(input)
       THEN /\ pc' = "aborted"
            /\ piece' = piece
       ELSE /\ pc' = "built"
            /\ piece' = piece_new(0, input)
    /\ UNCHANGED <<input, prev_oris, pieces, occupied, placed, stack,
                   num_solutions, solutions, root, saved>>

\* Piece::new is run again on one of the orientations it returned
RebuildFromOrientation ==
    /\ pc = "built"
    /\ prev_oris = NoOris
    /\ \E i \in 1..Len(piece.orintations) : input' = piece.orintations[i]
    /\ prev_oris' = <<OriSets(piece.orintations)>>
    /\ pc' = "input"
    /\ piece' = NoPiece
    /\ UNCHANGED <<pieces, occupied, placed, stack, num_solutions, solutions,
                   root, saved>>

\* Piece::new is run again on a rotation of its input
RebuildFromRotation ==
    /\ pc = "built"
    /\ prev_oris = NoOris
    /\ \E dir \in {"Next", "Clk", "CClk"} : input' = rotate(input, dir)
    /\ prev_oris' = <<OriSets(piece.orintations)>>
    /\ pc' = "input"
    /\ piece' = NoPiece
    /\ UNCHANGED <<pieces, occupied, placed, stack, num_solutions, solutions,
                   root, saved>>

NextPiece == PieceNew \/ RebuildFromOrientation \/ RebuildFromRotation

SpecPiece == InitPiece /\ [][NextPiece]_vars

(* ---------------- Placement ---------------- *)

placement_new == [occupied |-> BitsetEmpty, placed |-> <<>>]

\* mutant: the overlap test accepts everything
is_valid_always(board, bits) == TRUE

is_valid(board, bits) == IsZero(BitsetAnd(bits, board.occupied))

place(board, id, bits) ==
    [occupied |-> BitsetOr(board.occupied, bits),
     placed   |-> Append(board.placed, <<id, bits>>)]

\* mutant: the entry is popped and its bits are left in occupied
pop_keeps_occupied(board) ==
    IF board.placed = <<>> THEN board
    ELSE [occupied |-> board.occupied,
          placed   |-> SubSeq(board.placed, 1, Len(board.placed) - 1)]

\* mutant: the bits are taken out of occupied and the entry stays on the stack
pop_keeps_placed(board) ==
    IF board.placed = <<>> THEN board
    ELSE [occupied |-> BitsetXor(board.occupied, board.placed[Len(board.placed)][2]),
          placed   |-> board.placed]

\* Vec::pop gives None on an empty stack, and the board is left alone
pop(board) ==
    IF board.placed = <<>> THEN board
    ELSE LET last == board.placed[Len(board.placed)]
         IN [occupied |-> BitsetXor(board.occupied, last[2]),
             placed   |-> SubSeq(board.placed, 1, Len(board.placed) - 1)]

(* ---------------- Solver ---------------- *)

\* mutant: a piece counts as placeable only if all its placements are free
still_possible_all_free(puzzle_pieces, occ, remaining) ==
    \A n \in 1..Len(remaining) :
        \A b \in 1..Len(puzzle_pieces[remaining[n] + 1].placements) :
            IsZero(BitsetAnd(occ, puzzle_pieces[remaining[n] + 1].placements[b]))

still_possible(puzzle_pieces, occ, remaining) ==
    \A n \in 1..Len(remaining) :
        \E b \in 1..Len(puzzle_pieces[remaining[n] + 1].placements) :
            IsZero(BitsetAnd(occ, puzzle_pieces[remaining[n] + 1].placements[b]))

\* new_remaining: remaining.clone() with retain(|&id| id != piece_id)
retain(remaining, piece_id) == SelectSeq(remaining, LAMBDA id : id # piece_id)

\* mutant: the corner is taken from the front of the list
pop_corner_front(corners) ==
    [corner |-> corners[1], new_corners |-> SubSeq(corners, 2, Len(corners))]

\* new_corners.pop(): the corner taken is the last of the list
pop_corner(corners) ==
    [corner |-> corners[Len(corners)],
     new_corners |-> SubSeq(corners, 1, Len(corners) - 1)]

Board == [occupied |-> occupied, placed |-> placed]

Top == stack[Len(stack)]

PieceAt(f, p) == pieces[f.remaining[p] + 1]

\* the condition of the if in solve's inner loop at piece p, placement b
solve_accepts(f, p, b) ==
    LET bits == PieceAt(f, p).placements[b]
        new_remaining == retain(f.remaining, f.remaining[p])
        occ == BitsetOr(bits, occupied)
    IN is_valid(Board, bits) /\ still_possible(pieces, occ, new_remaining)

\* the condition of the if in corner_solve's inner loop
corner_accepts(f, p, b) ==
    LET bits == PieceAt(f, p).placements[b]
        new_remaining == retain(f.remaining, f.remaining[p])
        occ == BitsetOr(bits, occupied)
    IN /\ is_valid(Board, bits)
       /\ ~IsZero(BitsetAnd(bits, pop_corner(f.corners).corner))
       /\ still_possible(pieces, occ, new_remaining)

accepts(f, p, b) ==
    IF f.fn = "solve" THEN solve_accepts(f, p, b) ELSE corner_accepts(f, p, b)

NoPosition == <<>>

\* the two for loops from piece p, placement b on: the first position whose
\* if-condition holds, or NoPosition when the loops run out
RECURSIVE first_accept(_, _, _)
first_accept(f, p, b) ==
    IF p > Len(f.remaining) THEN NoPosition
    ELSE IF b > Len(PieceAt(f, p).placements) THEN first_accept(f, p + 1, 1)
    ELSE IF accepts(f, p, b) THEN <<p, b>>
    ELSE first_accept(f, p, b + 1)

NextPosition(f) == first_accept(f, f.pi, f.bi)

\* a call: the frame starts at the head of its loops and notes the board
Frame(fn, corners, remaining) ==
    [fn |-> fn, corners |-> corners, remaining |-> remaining,
     pi |-> 1, bi |-> 1, at |-> "start",
     occupied0 |-> occupied, placed0 |-> placed]

InLoop(f) == f.at = "loop" \/ (f.at = "start" /\ f.remaining # <<>>)

\* the frame returns to its caller; the outermost return ends the run
Return ==
    /\ stack' = SubSeq(stack, 1, Len(stack) - 1)
    /\ pc' = IF Len(stack) = 1 THEN "done" ELSE "run"

\* the body of the if: place, then the recursive call
PlaceAndCall(fn, corners) ==
    LET f == Top
        pos == NextPosition(f)
        piece_here == PieceAt(f, pos[1])
        bits == piece_here.placements[pos[2]]
        after == place(Board, piece_here.piece_id, bits)
        callee == [Frame(fn, corners, retain(f.remaining, f.remaining[pos[1]]))
                      EXCEPT !.occupied0 = after.occupied, !.placed0 = after.placed]
    IN /\ occupied' = after.occupied
       /\ placed' = after.placed
       /\ stack' = [stack EXCEPT ![Len(stack)] =
                       [f EXCEPT !.pi = pos[1], !.bi = pos[2], !.at = "undo"]]
                   \o <<callee>>
       /\ pc' = "run"

\* mutant: the inner loop does not move on
same_placement(bi) == bi

\* the inner for loop moves to the next placement
next_placement(bi) == bi + 1

\* placement.pop() after the call, then on to the next placement
Undo ==
    LET f == Top
        before == pop(Board)
    IN /\ occupied' = before.occupied
       /\ placed' = before.placed
       /\ stack' = [stack EXCEPT ![Len(stack)] =
                       [f EXCEPT !.bi = next_placement(f.bi), !.at = "loop"]]
       /\ pc' = "run"

SolverFrame == <<input, piece, prev_oris, pieces, root, saved>>

\* solve, remaining empty: the board is shown and counted
SolveReport ==
    /\ pc = "run" /\ Top.fn = "solve" /\ Top.at = "start"
    /\ Top.remaining = <<>>
    /\ solutions' = Append(solutions, Board)
    /\ num_solutions' = num_solutions + 1
    /\ Return
    /\ UNCHANGED <<occupied, placed>>
    /\ UNCHANGED SolverFrame

\* solve: the loops run on to the next placement that passes the if
SolveTry ==
    /\ pc = "run" /\ Top.fn = "solve" /\ InLoop(Top)
    /\ NextPosition(Top) # NoPosition
    /\ PlaceAndCall("solve", <<>>)
    /\ UNCHANGED <<num_solutions, solutions>>
    /\ UNCHANGED SolverFrame

SolveUndo ==
    /\ pc = "run" /\ Top.fn = "solve" /\ Top.at = "undo"
    /\ Undo
    /\ UNCHANGED <<num_solutions, solutions>>
    /\ UNCHANGED SolverFrame

\* solve: the loops are exhausted
SolveReturn ==
    /\ pc = "run" /\ Top.fn = "solve" /\ InLoop(Top)
    /\ NextPosition(Top) = NoPosition
    /\ Return
    /\ UNCHANGED <<occupied, placed, num_solutions, solutions>>
    /\ UNCHANGED SolverFrame

\* corner_solve, corners empty: self.solve(puzzle, placement, remaining)
CornerDelegate ==
    /\ pc = "run" /\ Top.fn = "corner_solve" /\ Top.at = "start"
    /\ Top.corners = <<>>
    /\ stack' = [stack EXCEPT ![Len(stack)] = [Top EXCEPT !.at = "delegated"]]
                \o <<Frame("solve", <<>>, Top.remaining)>>
    /\ UNCHANGED <<pc, occupied, placed, num_solutions, solutions>>
    /\ UNCHANGED SolverFrame

\* the return after the delegated solve
CornerDelegateReturn ==
    /\ pc = "run" /\ Top.fn = "corner_solve" /\ Top.at = "delegated"
    /\ Return
    /\ UNCHANGED <<occupied, placed, num_solutions, solutions>>
    /\ UNCHANGED SolverFrame

InCornerLoop(f) == f.at = "loop" \/ (f.at = "start" /\ f.corners # <<>>)

CornerTry ==
    /\ pc = "run" /\ Top.fn = "corner_solve" /\ InCornerLoop(Top)
    /\ NextPosition(Top) # NoPosition
    /\ PlaceAndCall("corner_solve", pop_corner(Top.corners).new_corners)
    /\ UNCHANGED <<num_solutions, solutions>>
    /\ UNCHANGED SolverFrame

CornerUndo ==
    /\ pc = "run" /\ Top.fn = "corner_solve" /\ Top.at = "undo"
    /\ Undo
    /\ UNCHANGED <<num_solutions, solutions>>
    /\ UNCHANGED SolverFrame

CornerReturn ==
    /\ pc = "run" /\ Top.fn = "corner_solve" /\ InCornerLoop(Top)
    /\ NextPosition(Top) = NoPosition
    /\ Return
    /\ UNCHANGED <<occupied, placed, num_solutions, solutions>>
    /\ UNCHANGED SolverFrame

(* ---------------- the puzzles given to the solver ---------------- *)

\* an a x b x c block of cubes
Box(a, b, c) ==
    collect([n \in 1..(a * b * c) |->
        Coord((n - 1) % a, ((n - 1) \div a) % b, (n - 1) \div (a * b))])

\* the pieces are slabs SIZE x SIZE x t, built by Piece::new
SlabPieces == [t \in 1..(SIZE - 1) |-> piece_new(0, Box(SIZE, SIZE, t))]

PuzzleSet ==
    {[n \in 1..Len(ts) |-> [SlabPieces[ts[n]] EXCEPT !.piece_id = n - 1]] :
        ts \in UNION {[1..m -> 1..(SIZE - 1)] : m \in 1..MaxPieces}}

\* the corner bitmasks of main, in main's order
MainCorners == <<{0}, {3}, {12}, {15}, {48}, {51}, {60}, {63}>>

\* main places piece 1 by hand before the search and leaves it out of remaining
PrePlacements(ps) ==
    {<<>>} \cup (IF Len(ps) >= 2
                 THEN {<<1, ps[2].placements[j]>> : j \in {1, Len(ps[2].placements)}}
                 ELSE {})

RootCalls ==
    {[fn |-> "solve", corners |-> <<>>]}
    \cup {[fn |-> "corner_solve", corners |-> SubSeq(MainCorners, 1, k)] :
             k \in 0..MaxCorners}

InitSolver ==
    /\ pc = "run"
    /\ input = <<>>
    /\ piece = NoPiece
    /\ prev_oris = NoOris
    /\ saved = NoSaved
    /\ num_solutions = 0
    /\ solutions = <<>>
    /\ pieces \in PuzzleSet
    /\ \E pre \in PrePlacements(pieces) : \E call \in RootCalls :
          LET board == IF pre = <<>> THEN placement_new
                       ELSE place(placement_new, pre[1], pre[2])
              ids == collect([n \in 1..Len(pieces) |-> n - 1])
              remaining == IF pre = <<>> THEN ids ELSE retain(ids, pre[1])
          IN /\ occupied = board.occupied
             /\ placed = board.placed
             /\ root = [fn |-> call.fn, corners |-> call.corners,
                        remaining |-> remaining,
                        occupied |-> board.occupied, placed |-> board.placed]
             /\ stack = <<[fn |-> call.fn, corners |-> call.corners,
                           remaining |-> remaining, pi |-> 1, bi |-> 1,
                           at |-> "start", occupied0 |-> board.occupied,
                           placed0 |-> board.placed]>>

Next ==
    \/ SolveReport \/ SolveTry \/ SolveUndo \/ SolveReturn
    \/ CornerDelegate \/ CornerDelegateReturn
    \/ CornerTry \/ CornerUndo \/ CornerReturn

Init == InitSolver

Spec == Init /\ [][Next]_vars

\* the search is one thread of control that runs until it returns
FairSpec == Spec /\ WF_vars(Next)

(* ---------------- the unit-cube puzzle ---------------- *)

\* a one-block piece on a grid of NUnit cells: one placement per cell
unit_piece(id) ==
    [piece_id |-> id, size |-> 1, orintations |-> <<<<Coord(0, 0, 0)>>>>,
     placements |-> collect([c \in 1..NUnit |-> {c - 1}])]

UnitGrid == 0..(NUnit - 1)

InitUnit ==
    /\ pc = "run"
    /\ input = <<>>
    /\ piece = NoPiece
    /\ prev_oris = NoOris
    /\ saved = NoSaved
    /\ num_solutions = 0
    /\ solutions = <<>>
    /\ pieces = collect([n \in 1..NUnit |-> unit_piece(n - 1)])
    /\ occupied = BitsetEmpty
    /\ placed = <<>>
    /\ root = [fn |-> "solve", corners |-> <<>>,
               remaining |-> collect([n \in 1..NUnit |-> n - 1]),
               occupied |-> BitsetEmpty, placed |-> <<>>]
    /\ stack = <<[fn |-> "solve", corners |-> <<>>,
                  remaining |-> collect([n \in 1..NUnit |-> n - 1]),
                  pi |-> 1, bi |-> 1, at |-> "start",
                  occupied0 |-> BitsetEmpty, placed0 |-> <<>>]>>

NextUnit == SolveReport \/ SolveTry \/ SolveUndo \/ SolveReturn

SpecUnit == InitUnit /\ [][NextUnit]_vars

(* ---------------- place and pop on a board of their own ---------------- *)

BoardBits == SUBSET (0..MaxBit)

BoardIds == 0..1

InitBoard ==
    /\ pc = "idle"
    /\ input = <<>>
    /\ piece = NoPiece
    /\ prev_oris = NoOris
    /\ pieces = <<>>
    /\ stack = <<>>
    /\ num_solutions = 0
    /\ solutions = <<>>
    /\ root = NoRoot
    /\ occupied = placement_new.occupied
    /\ placed = placement_new.placed
    /\ saved = NoSaved

BoardFrame == <<input, piece, prev_oris, pieces, stack, num_solutions, solutions, root>>

\* placement.place(id, bits), for any id and bits, valid or not
BoardPlace ==
    /\ pc \in {"idle", "placed", "popped"}
    /\ Len(placed) < MaxDepth
    /\ \E id \in BoardIds : \E bits \in BoardBits :
          /\ occupied' = place(Board, id, bits).occupied
          /\ placed' = place(Board, id, bits).placed
          /\ saved' = [occupied |-> occupied, placed |-> placed,
                       bits |-> bits, valid |-> is_valid(Board, bits)]
    /\ pc' = "placed"
    /\ UNCHANGED BoardFrame

\* placement.pop(); it closes a round trip when it follows a place directly
BoardPop ==
    /\ pc \in {"idle", "placed", "popped"}
    /\ occupied' = pop(Board).occupied
    /\ placed' = pop(Board).placed
    /\ pc' = IF pc = "placed" THEN "popped" ELSE "idle"
    /\ UNCHANGED saved
    /\ UNCHANGED BoardFrame

NextBoard == BoardPlace \/ BoardPop

SpecBoard == InitBoard /\ [][NextBoard]_vars

(* ---------------- the search without the pruning ---------------- *)

RECURSIVE RefSolve(_, _)
RECURSIVE RefPieces(_, _, _, _)
RECURSIVE RefPlacements(_, _, _, _, _)

\* the solutions of the backtracking search that tests is_valid alone
RefSolve(board, remaining) ==
    IF remaining = <<>> THEN <<board>>
    ELSE RefPieces(board, remaining, 1, Len(remaining))

\* the solutions found under the pieces remaining[lo..hi], in loop order
RefPieces(board, remaining, lo, hi) ==
    IF lo = hi
    THEN RefPlacements(board, remaining, lo, 1,
                       Len(pieces[remaining[lo] + 1].placements))
    ELSE RefPieces(board, remaining, lo, (lo + hi) \div 2)
         \o RefPieces(board, remaining, (lo + hi) \div 2 + 1, hi)

\* the solutions found under the placements lo..hi of the piece remaining[p]
RefPlacements(board, remaining, p, lo, hi) ==
    IF lo > hi THEN <<>>
    ELSE IF lo = hi
    THEN LET bits == pieces[remaining[p] + 1].placements[lo]
         IN IF IsZero(BitsetAnd(bits, board.occupied))
            THEN RefSolve([occupied |-> BitsetOr(board.occupied, bits),
                           placed |-> Append(board.placed,
                                             <<pieces[remaining[p] + 1].piece_id, bits>>)],
                          SelectSeq(remaining, LAMBDA id : id # remaining[p]))
            ELSE <<>>
    ELSE RefPlacements(board, remaining, p, lo, (lo + hi) \div 2)
         \o RefPlacements(board, remaining, p, (lo + hi) \div 2 + 1, hi)

(* ---------------- properties of the search ---------------- *)

FullGrid == 0..(SIZE * SIZE * SIZE - 1)

UnionOfPlaced(pl) == UNION {pl[i][2] : i \in 1..Len(pl)}

PairwiseDisjoint(pl) ==
    \A i \in 1..Len(pl) : \A j \in 1..Len(pl) : i < j => pl[i][2] \cap pl[j][2] = {}

RECURSIVE SumSizes(_)
SumSizes(ids) ==
    IF ids = {} THEN 0
    ELSE LET id == CHOOSE x \in ids : TRUE
         IN pieces[id + 1].size + SumSizes(ids \ {id})

\* cells filled at the outermost call plus the blocks of the pieces to place
RootBlockCount ==
    Cardinality(root.occupied)
    + SumSizes({root.remaining[n] : n \in 1..Len(root.remaining)})

(* C1: during solve and corner_solve, occupied is the union of the bitmasks  *)
(* on the placed stack.                                                      *)
C1_OccupiedIsUnion == occupied = UnionOfPlaced(placed)

C1_Witness == pc = "run" /\ Len(placed) >= 3 /\ num_solutions >= 1

(* C2 as stated: every board that solve reports is an exact cover: occupied  *)
(* is the full grid and the placed bitmasks are pairwise disjoint, whatever  *)
(* the pieces and the remaining set.                                         *)
C2_ReportIsExactCover ==
    \A n \in 1..Len(solutions) :
        /\ solutions[n].occupied = FullGrid
        /\ PairwiseDisjoint(solutions[n].placed)

(* C2 amended: every board that solve reports has pairwise disjoint placed   *)
(* bitmasks whose union is occupied, and as many cells as were filled at the *)
(* call plus the blocks of the pieces of remaining; it is the full grid when *)
(* that count is SIZE^3.                                                     *)
C2_ReportIsDisjointUnion ==
    LET count == RootBlockCount
    IN \A n \in 1..Len(solutions) :
           /\ PairwiseDisjoint(solutions[n].placed)
           /\ solutions[n].occupied = UnionOfPlaced(solutions[n].placed)
           /\ Cardinality(solutions[n].occupied) = count
           /\ count = SIZE * SIZE * SIZE => solutions[n].occupied = FullGrid

C2_Witness ==
    \E n \in 1..Len(solutions) :
        /\ solutions[n].occupied = FullGrid
        /\ Len(solutions[n].placed) >= 3

\* the first k placements of the call cover the corners in the order popped
CornersCovered(pl) ==
    LET k == Len(root.corners)
        base == Len(root.placed)
    IN /\ Len(pl) >= base + k
       /\ \A i \in 1..k : pl[base + i][2] \cap root.corners[k - i + 1] # {}

(* C5: under corner_solve with k corners, solve is entered, and a solution   *)
(* is reported, only with the first k placements of the call covering the    *)
(* corners, the i-th placement the i-th corner popped from the end.          *)
C5_CornersFirst ==
    root.fn = "corner_solve" =>
        /\ \A n \in 1..Len(solutions) : CornersCovered(solutions[n].placed)
        /\ \A d \in 1..Len(stack) : stack[d].fn = "solve" => CornersCovered(stack[d].placed0)

C5_Witness ==
    /\ root.fn = "corner_solve"
    /\ Len(root.corners) >= 2
    /\ Len(solutions) >= 1

(* C6: solve and corner_solve terminate: the outermost call returns.         *)
C6_Terminates == <>(pc = "done")

C6_Witness == pc = "done" /\ Len(root.remaining) >= 3 /\ num_solutions >= 1

\* the top frame is about to return to its caller
Returning(f) ==
    \/ f.fn = "solve" /\ f.at = "start" /\ f.remaining = <<>>
    \/ f.fn = "solve" /\ InLoop(f) /\ NextPosition(f) = NoPosition
    \/ f.fn = "corner_solve" /\ f.at = "delegated"
    \/ f.fn = "corner_solve" /\ InCornerLoop(f) /\ NextPosition(f) = NoPosition

(* C9: when a call of solve or corner_solve returns, occupied and placed are *)
(* what they were when the call was made.                                    *)
C9_BoardRestoredOnReturn ==
    /\ (pc = "run" /\ Returning(Top)) =>
           (occupied = Top.occupied0 /\ placed = Top.placed0)
    /\ pc = "done" => (occupied = root.occupied /\ placed = root.placed)

C9_Witness ==
    /\ pc = "run" /\ Returning(Top)
    /\ Top.fn = "solve" /\ Top.at = "loop"
    /\ Len(stack) >= 2
    /\ num_solutions >= 1

\* some placement is free on the board of the call and yet pruned
PrunedAtRoot ==
    \E p \in 1..Len(root.remaining) :
        \E b \in 1..Len(pieces[root.remaining[p] + 1].placements) :
            LET bits == pieces[root.remaining[p] + 1].placements[b]
            IN /\ IsZero(BitsetAnd(bits, root.occupied))
               /\ ~still_possible(pieces, BitsetOr(bits, root.occupied),
                                  retain(root.remaining, root.remaining[p]))

(* C10: solve reports the same solutions, in the same order, as the search   *)
(* that keeps the is_valid test and leaves the still_possible test out.      *)
C10_PruningKeepsSolutions ==
    (pc = "done" /\ root.fn = "solve") =>
        solutions = RefSolve([occupied |-> root.occupied, placed |-> root.placed],
                             root.remaining)

C10_Witness ==
    /\ pc = "done" /\ root.fn = "solve"
    /\ PrunedAtRoot
    /\ num_solutions >= 1

RECURSIVE Factorial(_)
Factorial(n) == IF n = 0 THEN 1 ELSE n * Factorial(n - 1)

C3_RoundTrip ==
    pc = "popped" => (occupied = saved.occupied /\ placed = saved.placed)

(* C3 amended: place followed at once by pop leaves placed as it was, and    *)
(* leaves occupied as it was when the bitmask was disjoint from occupied.    *)
C3_RoundTripWhenValid ==
    pc = "popped" =>
        /\ placed = saved.placed
        /\ saved.valid => occupied = saved.occupied

C3_Witness ==
    /\ pc = "popped" /\ saved.valid
    /\ saved.bits # {} /\ saved.occupied # {}

(* ---------------- the 24 proper rotations of the cube ---------------- *)

AxisPermutations ==
    {<<1, 2, 3>>, <<2, 3, 1>>, <<3, 1, 2>>, <<1, 3, 2>>, <<3, 2, 1>>, <<2, 1, 3>>}

PermutationSign(p) == IF p \in {<<1, 2, 3>>, <<2, 3, 1>>, <<3, 1, 2>>} THEN 1 ELSE -1

\* signed axis permutations of determinant +1
ProperRotations ==
    {r \in [p : AxisPermutations, s : [1..3 -> {-1, 1}]] :
        PermutationSign(r.p) * r.s[1] * r.s[2] * r.s[3] = 1}

Axis(c, a) == CASE a = 1 -> c.x [] a = 2 -> c.y [] a = 3 -> c.z

ApplyRotation(r, c) ==
    Coord(r.s[1] * Axis(c, r.p[1]), r.s[2] * Axis(c, r.p[2]), r.s[3] * Axis(c, r.p[3]))

\* the block sets of the normalised images of a shape under the 24 rotations
RotationImages(blocks) ==
    {BlockSet(normalise(collect([i \in 1..Len(blocks) |-> ApplyRotation(r, blocks[i])]))) :
        r \in ProperRotations}

\* the shape is longer than the grid along some axis, so no rotation of it fits
NoFit(blocks) ==
    \E i \in 1..Len(blocks) : \E j \in 1..Len(blocks) :
        \/ blocks[i].x - blocks[j].x >= SIZE
        \/ blocks[i].y - blocks[j].y >= SIZE
        \/ blocks[i].z - blocks[j].z >= SIZE

(* C7: for a non-empty, duplicate-free block list, all_orintations returns     *)
(* exactly the distinct normalised images of the shape under the 24 proper    *)
(* rotations, each once, and running it again on any orientation it returned  *)
(* or on a rotation of its input returns the same set of block sets.          *)
C7_AllOrientations ==
    pc = "built" =>
        /\ OriSets(piece.orintations) = RotationImages(input)
        /\ Cardinality(OriSets(piece.orintations)) = Len(piece.orintations)
        /\ prev_oris # NoOris => prev_oris[1] = OriSets(piece.orintations)

C7_Witness ==
    /\ pc = "built"
    /\ prev_oris # NoOris
    /\ Len(piece.orintations) = 24

(* C8: building a Piece from a block list with zero blocks, or from a shape   *)
(* that fits in the grid at no translation, does not abort and leaves the     *)
(* piece with an empty placement list.                                        *)
C8_NoAbortZeroPlacements ==
    (pc \in {"built", "aborted"} /\ (Len(input) = 0 \/ NoFit(input))) =>
        (pc = "built" /\ Len(piece.placements) = 0)

====
